---- MODULE Spec2Model ----
(***************************************************************************)
(* 3D chess on an 8x8x8 board: the board model and move generator of       *)
(* src/lib/gameLogic.ts and the session controller of src/App.tsx.         *)
(***************************************************************************)
EXTENDS Integers, Sequences, FiniteSets, TLC

(***************************************************************************)
(* Data model                                                              *)
(***************************************************************************)

\* SIZE, imported from '../types': the side length of the cubic board.
SIZE == 8

Coords == 0 .. (SIZE - 1)

PieceTypes == {"P", "R", "N", "B", "Q", "K"}

Colors == {"white", "black"}

\* An empty cell of BoardState (null in the source).
null == [type |-> "-", color |-> "-", x |-> -1, y |-> -1, z |-> -1, hasMoved |-> FALSE]

\* A Piece record.
Piece(t, c, px, py, pz, m) ==
    [type |-> t, color |-> c, x |-> px, y |-> py, z |-> pz, hasMoved |-> m]

\* Mutant of Move: every move is tagged as a king-side castle.
MoveTaggedCastle(mx, my, mz, cap) ==
    [x |-> mx, y |-> my, z |-> mz, capture |-> cap, castle |-> "king"]

\* A Move record; castle is "none" where the source leaves the field undefined.
Move(mx, my, mz, cap) ==
    [x |-> mx, y |-> my, z |-> mz, capture |-> cap, castle |-> "none"]

\* The elements of a list.
Range(s) == {s[i] : i \in 1 .. Len(s)}

Abs(n) == IF n < 0 THEN -n ELSE n

(***************************************************************************)
(* initializeBoardState                                                    *)
(***************************************************************************)

\* Array(SIZE).fill(0).map(...Array(SIZE).fill(null)): the all-null grid.
EmptyBoard == [x \in Coords |-> [y \in Coords |-> [z \in Coords |-> null]]]

\* The pattern rows, one character per x (1-based sequences for 0-based x, y).
MAJOR_PIECE_PATTERN ==
    << <<"r", "n", "b", "r", "r", "b", "n", "r">>,
       <<"n", "n", "b", "q", "q", "b", "n", "n">>,
       <<"b", "b", "b", "q", "q", "b", "b", "b">>,
       <<"r", "q", "q", "q", "k", "q", "q", "r">>,
       <<"r", "q", "q", "q", "q", "q", "q", "r">>,
       <<"b", "b", "b", "q", "q", "b", "b", "b">>,
       <<"n", "n", "b", "q", "q", "b", "n", "n">>,
       <<"r", "n", "b", "r", "r", "b", "n", "r">> >>

PAWN_ROW == <<"p", "p", "p", "p", "p", "p", "p", "p">>

\* char.toUpperCase() on the characters of the patterns.
toUpperCase(ch) ==
    CASE ch = "p" -> "P"
      [] ch = "r" -> "R"
      [] ch = "n" -> "N"
      [] ch = "b" -> "B"
      [] ch = "q" -> "Q"
      [] ch = "k" -> "K"
      [] OTHER -> ch

\* The layer pattern chosen for z, <<>> where the source keeps null.
layerPattern(z) ==
    IF z = 0 THEN MAJOR_PIECE_PATTERN
    ELSE IF z = 1 THEN [i \in 1 .. SIZE |-> PAWN_ROW]
    ELSE IF z = 6 THEN [i \in 1 .. SIZE |-> PAWN_ROW]
    ELSE IF z = 7 THEN MAJOR_PIECE_PATTERN
    ELSE <<>>

\* Mutant of initialCell: the pattern is indexed column first.
initialCellTransposed(x, y, z) ==
    LET pattern == layerPattern(z)
    IN  IF pattern = <<>> THEN null
        ELSE Piece(toUpperCase(pattern[x + 1][y + 1]),
                   IF z < 4 THEN "white" ELSE "black", x, y, z, FALSE)

\* The cell the loops of initializeBoardState leave at (x, y, z).
initialCell(x, y, z) ==
    LET isWhite == z < 4
        pattern == layerPattern(z)
    IN  IF pattern = <<>> THEN null
        ELSE LET char == pattern[y + 1][x + 1]
             IN  IF char # " "
                 THEN Piece(toUpperCase(char), IF isWhite THEN "white" ELSE "black",
                            x, y, z, FALSE)
                 ELSE null

initializeBoardState ==
    [x \in Coords |-> [y \in Coords |-> [z \in Coords |-> initialCell(x, y, z)]]]

(***************************************************************************)
(* calculateValidMoves                                                     *)
(***************************************************************************)

\* Mutant of isWithinBounds: the upper z bound is off by one.
isWithinBoundsOffByOne(x, y, z) ==
    x >= 0 /\ x < SIZE /\ y >= 0 /\ y < SIZE /\ z >= 0 /\ z <= SIZE

isWithinBounds(x, y, z) ==
    x >= 0 /\ x < SIZE /\ y >= 0 /\ y < SIZE /\ z >= 0 /\ z < SIZE

\* boardState[x][y][z] as JavaScript reads it: an index past the end of the
\* innermost array yields undefined, which every test of the source treats as
\* it treats null.
cellAt(boardState, x, y, z) ==
    IF z \in DOMAIN boardState[x][y] THEN boardState[x][y][z] ELSE null

\* Concatenation of a list of lists, in order.
RECURSIVE Flatten(_)
Flatten(ss) == IF ss = <<>> THEN <<>> ELSE Head(ss) \o Flatten(Tail(ss))

\* Mutant of pawnForwardMoves: the double step is tested on its own, not
\* inside the test of the single step.
pawnForwardMovesUnnested(piece, boardState) ==
    LET zDir == IF piece.color = "white" THEN 1 ELSE -1
        moveZ == piece.z + zDir
        startLayer == IF piece.color = "white" THEN 1 ELSE 6
        doubleMoveZ == piece.z + zDir * 2
    IN  (IF isWithinBounds(piece.x, piece.y, moveZ)
            /\ cellAt(boardState, piece.x, piece.y, moveZ) = null
         THEN <<Move(piece.x, piece.y, moveZ, FALSE)>> ELSE <<>>)
        \o (IF piece.z = startLayer
               /\ isWithinBounds(piece.x, piece.y, doubleMoveZ)
               /\ cellAt(boardState, piece.x, piece.y, doubleMoveZ) = null
            THEN <<Move(piece.x, piece.y, doubleMoveZ, FALSE)>> ELSE <<>>)

\* Pawn: the forward step and, from the starting layer, the double step.
pawnForwardMoves(piece, boardState) ==
    LET zDir == IF piece.color = "white" THEN 1 ELSE -1
        moveZ == piece.z + zDir
    IN  IF isWithinBounds(piece.x, piece.y, moveZ)
           /\ cellAt(boardState, piece.x, piece.y, moveZ) = null
        THEN <<Move(piece.x, piece.y, moveZ, FALSE)>>
             \o (LET startLayer == IF piece.color = "white" THEN 1 ELSE 6
                     doubleMoveZ == piece.z + zDir * 2
                 IN  IF piece.z = startLayer
                        /\ isWithinBounds(piece.x, piece.y, doubleMoveZ)
                        /\ cellAt(boardState, piece.x, piece.y, doubleMoveZ) = null
                     THEN <<Move(piece.x, piece.y, doubleMoveZ, FALSE)>>
                     ELSE <<>>)
        ELSE <<>>

\* Pawn: the list threeDDirections, dx outer and dy inner over [-1, 0, 1].
threeDDirections(zDir) ==
    LET all == [i \in 1 .. 9 |-> <<((i - 1) \div 3) - 1, ((i - 1) % 3) - 1, zDir>>]
    IN  SelectSeq(all, LAMBDA d : ~(d[1] = 0 /\ d[2] = 0))

\* Mutant of pawnCapture: the colour of the target is not tested.
pawnCaptureAnyColor(piece, boardState, d) ==
    LET tx == piece.x + d[1]
        ty == piece.y + d[2]
        tz == piece.z + d[3]
    IN  IF isWithinBounds(tx, ty, tz) /\ cellAt(boardState, tx, ty, tz) # null
        THEN <<Move(tx, ty, tz, TRUE)>>
        ELSE <<>>

\* Pawn: the capture, if any, in direction d.
pawnCapture(piece, boardState, d) ==
    LET tx == piece.x + d[1]
        ty == piece.y + d[2]
        tz == piece.z + d[3]
    IN  IF isWithinBounds(tx, ty, tz)
        THEN LET targetPiece == cellAt(boardState, tx, ty, tz)
             IN  IF targetPiece # null /\ targetPiece.color # piece.color
                 THEN <<Move(tx, ty, tz, TRUE)>>
                 ELSE <<>>
        ELSE <<>>

pawnCaptureMoves(piece, boardState) ==
    LET zDir == IF piece.color = "white" THEN 1 ELSE -1
        dirs == threeDDirections(zDir)
    IN  Flatten([i \in 1 .. Len(dirs) |-> pawnCapture(piece, boardState, dirs[i])])

\* Knight: the literal table of 24 offsets.
permutations ==
    << <<2, 1, 0>>, <<2, -1, 0>>, <<-2, 1, 0>>, <<-2, -1, 0>>,
       <<1, 2, 0>>, <<1, -2, 0>>, <<-1, 2, 0>>, <<-1, -2, 0>>,
       <<2, 0, 1>>, <<2, 0, -1>>, <<-2, 0, 1>>, <<-2, 0, -1>>,
       <<1, 0, 2>>, <<1, 0, -2>>, <<-1, 0, 2>>, <<-1, 0, -2>>,
       <<0, 2, 1>>, <<0, 2, -1>>, <<0, -2, 1>>, <<0, -2, -1>>,
       <<0, 1, 2>>, <<0, 1, -2>>, <<0, -1, 2>>, <<0, -1, -2>> >>

\* Mutant of knightLeap: a target held by an own piece is not excluded.
knightLeapOntoOwn(piece, boardState, d) ==
    LET tx == piece.x + d[1]
        ty == piece.y + d[2]
        tz == piece.z + d[3]
    IN  IF isWithinBounds(tx, ty, tz)
        THEN <<Move(tx, ty, tz, cellAt(boardState, tx, ty, tz) # null)>>
        ELSE <<>>

\* Knight: the move, if any, by offset d.
knightLeap(piece, boardState, d) ==
    LET tx == piece.x + d[1]
        ty == piece.y + d[2]
        tz == piece.z + d[3]
    IN  IF isWithinBounds(tx, ty, tz)
        THEN LET targetPiece == cellAt(boardState, tx, ty, tz)
             IN  IF targetPiece = null \/ targetPiece.color # piece.color
                 THEN <<Move(tx, ty, tz, targetPiece # null)>>
                 ELSE <<>>
        ELSE <<>>

knightMoves(piece, boardState) ==
    Flatten([i \in 1 .. Len(permutations) |-> knightLeap(piece, boardState, permutations[i])])

\* The 26 vectors of the 3x3x3 neighbourhood, dx outer, dy, dz inner.
all3DDirections ==
    LET all == [i \in 1 .. 27 |->
                  <<((i - 1) \div 9) - 1, (((i - 1) \div 3) % 3) - 1, ((i - 1) % 3) - 1>>]
    IN  SelectSeq(all, LAMBDA d : ~(d[1] = 0 /\ d[2] = 0 /\ d[3] = 0))

\* new Set(...) over the joined directions: first occurrences, in order.
RECURSIVE uniqueDirections(_)
uniqueDirections(ds) ==
    IF ds = <<>> THEN <<>>
    ELSE LET front == SubSeq(ds, 1, Len(ds) - 1)
             last == ds[Len(ds)]
         IN  IF last \in Range(front) THEN uniqueDirections(front)
             ELSE Append(uniqueDirections(front), last)

rayDirections(type) ==
    LET norm(d) == Abs(d[1]) + Abs(d[2]) + Abs(d[3])
        orth == IF type \in {"R", "Q", "K"}
                THEN SelectSeq(all3DDirections, LAMBDA d : norm(d) = 1)
                ELSE <<>>
        diag == IF type \in {"B", "Q", "K"}
                THEN SelectSeq(all3DDirections, LAMBDA d : norm(d) > 1)
                ELSE <<>>
    IN  uniqueDirections(orth \o diag)

maxDistance(type) == IF type = "K" THEN 1 ELSE SIZE

\* Mutant of walkRay: the walk does not stop after a capture.
RECURSIVE walkRayThrough(_, _, _, _)
walkRayThrough(piece, boardState, d, k) ==
    IF k > maxDistance(piece.type) THEN <<>>
    ELSE LET tx == piece.x + d[1] * k
             ty == piece.y + d[2] * k
             tz == piece.z + d[3] * k
         IN  IF ~isWithinBounds(tx, ty, tz) THEN <<>>
             ELSE LET targetPiece == cellAt(boardState, tx, ty, tz)
                  IN  IF targetPiece # null /\ targetPiece.color = piece.color
                      THEN <<>>
                      ELSE <<Move(tx, ty, tz, targetPiece # null)>>
                           \o walkRayThrough(piece, boardState, d, k + 1)

\* The inner loop over k along direction d, from distance k on.
RECURSIVE walkRay(_, _, _, _)
walkRay(piece, boardState, d, k) ==
    IF k > maxDistance(piece.type) THEN <<>>
    ELSE LET tx == piece.x + d[1] * k
             ty == piece.y + d[2] * k
             tz == piece.z + d[3] * k
         IN  IF ~isWithinBounds(tx, ty, tz) THEN <<>>
             ELSE LET targetPiece == cellAt(boardState, tx, ty, tz)
                  IN  IF targetPiece # null
                      THEN IF targetPiece.color # piece.color
                           THEN <<Move(tx, ty, tz, TRUE)>>
                           ELSE <<>>
                      ELSE <<Move(tx, ty, tz, FALSE)>>
                           \o walkRay(piece, boardState, d, k + 1)

slidingMoves(piece, boardState) ==
    LET dirs == rayDirections(piece.type)
    IN  Flatten([i \in 1 .. Len(dirs) |-> walkRay(piece, boardState, dirs[i], 1)])

calculateValidMoves(piece, boardState) ==
    IF piece.type = "P"
    THEN pawnForwardMoves(piece, boardState) \o pawnCaptureMoves(piece, boardState)
    ELSE IF piece.type = "N" THEN knightMoves(piece, boardState)
    ELSE slidingMoves(piece, boardState)

(***************************************************************************)
(* Session state of App (src/App.tsx)                                      *)
(***************************************************************************)

VARIABLES
    boardState,      \* useState<BoardState>
    turn,            \* useState<'white' | 'black'>
    selectedPiece,   \* useState<Piece | null>
    validMoves,      \* useState<Move[]>
    capturedPieces,  \* useState<{ white: Piece[], black: Piece[] }>
    gameStatus,      \* useState('active')
    promotionData,   \* useState<{ piece, x, y, z } | null>
    moveCount,       \* history: moves and promotions applied so far
    effectRender     \* when the render of the effect's setValidMoves is committed

vars == <<boardState, turn, selectedPiece, validMoves, capturedPieces, gameStatus,
          promotionData, moveCount, effectRender>>

\* promotionData when no promotion is pending (null in the source).
noPromotion == [piece |-> null, x |-> -1, y |-> -1, z |-> -1]

\* The result of Array.prototype.find when no element matches.
undefined == [x |-> -1, y |-> -1, z |-> -1, capture |-> FALSE, castle |-> "none"]

\* color.toUpperCase() in the status template.
winStatus(color) == IF color = "white" THEN "WHITE WINS!" ELSE "BLACK WINS!"

opponentColor(color) == IF color = "white" THEN "black" ELSE "white"

\* JSON.parse(JSON.stringify(boardState)): a fresh grid, cell by cell, with the
\* six fields of every piece re-read from its serialised form.
JSONClone(board) ==
    [x \in Coords |-> [y \in Coords |-> [z \in Coords |->
        LET p == board[x][y][z]
        IN  IF p = null THEN null
            ELSE Piece(p.type, p.color, p.x, p.y, p.z, p.hasMoved)]]]

\* validMoves.find(m => m.x === x && m.y === y && m.z === z): the first match.
findMove(moves, x, y, z) ==
    LET hits == {i \in 1 .. Len(moves) : moves[i].x = x /\ moves[i].y = y /\ moves[i].z = z}
    IN  IF hits = {} THEN undefined
        ELSE moves[CHOOSE i \in hits : \A j \in hits : i <= j]

\* The effect on [selectedPiece, boardState]: the list validMoves holds once
\* the effect has run for the new selection and board.
useEffectValidMoves(sel, board) ==
    IF sel # null THEN calculateValidMoves(sel, board) ELSE <<>>

\* The effect's dependency list [selectedPiece, boardState]: the effect runs
\* after a render in which one of the two changed.
effectDeps(sel, board) == <<sel, board>>

\* validMoves as the handlers of the next event read it. With effectRender =
\* "sync" the render scheduled by the effect's setValidMoves is committed
\* before the next event is handled; with "deferred" that render is a later
\* task (renderValidMoves) and the handlers meanwhile read the previous list.
committedValidMoves(sel, board) ==
    IF effectRender = "sync" /\ effectDeps(sel, board) # effectDeps(selectedPiece, boardState)
    THEN useEffectValidMoves(sel, board)
    ELSE validMoves

\* Mutant of isPromotionMove: no move is a promotion.
isPromotionMoveNever(piece, targetZ) == FALSE

\* Mutant of isPromotionMove: the two promotion ranks are swapped.
isPromotionMoveSwapped(piece, targetZ) ==
    LET promotionRank == IF piece.color = "white" THEN 0 ELSE 7
    IN  piece.type = "P" /\ targetZ = promotionRank

\* executeMove: does the move send a pawn to its promotion rank?
isPromotionMove(piece, targetZ) ==
    LET promotionRank == IF piece.color = "white" THEN 7 ELSE 0
    IN  piece.type = "P" /\ targetZ = promotionRank

\* Mutant of relocateRook: the rook is copied to its new column and the edge
\* cell keeps it.
relocateRookKeepsEdge(board, edgeX, destX, targetY, targetZ) ==
    LET rook == board[edgeX][targetY][targetZ]
    IN  IF rook # null
        THEN LET moved == [rook EXCEPT !.x = destX, !.hasMoved = TRUE]
             IN  [board EXCEPT ![destX][targetY][targetZ] = moved]
        ELSE board

\* executeMove, castle branch: the rook relocation from edge column edgeX to
\* column destX on the board that already holds the moved king.
relocateRook(board, edgeX, destX, targetY, targetZ) ==
    LET rook == board[edgeX][targetY][targetZ]
    IN  IF rook # null
        THEN LET cleared == [board EXCEPT ![edgeX][targetY][targetZ] = null]
                 moved == [rook EXCEPT !.x = destX, !.hasMoved = TRUE]
             IN  [cleared EXCEPT ![destX][targetY][targetZ] = moved]
        ELSE board

\* Mutant of placeMovedPiece: the moved piece keeps its stored coordinates.
placeMovedPieceStaleCoords(board, piece, targetX, targetY, targetZ) ==
    LET newBoardState == JSONClone(board)
        cleared == [newBoardState EXCEPT ![piece.x][piece.y][piece.z] = null]
        movedPiece == [piece EXCEPT !.hasMoved = TRUE]
    IN  [cleared EXCEPT ![targetX][targetY][targetZ] = movedPiece]

\* Mutant of placeMovedPiece: the origin cell is not emptied.
placeMovedPieceKeepsOrigin(board, piece, targetX, targetY, targetZ) ==
    LET newBoardState == JSONClone(board)
        movedPiece == [piece EXCEPT !.x = targetX, !.y = targetY, !.z = targetZ,
                                    !.hasMoved = TRUE]
    IN  [newBoardState EXCEPT ![targetX][targetY][targetZ] = movedPiece]

\* executeMove: the clone with the origin emptied and the moved piece (the
\* moved king in the castle branch) written on the target cell.
placeMovedPiece(board, piece, targetX, targetY, targetZ) ==
    LET newBoardState == JSONClone(board)
        cleared == [newBoardState EXCEPT ![piece.x][piece.y][piece.z] = null]
        movedPiece == [piece EXCEPT !.x = targetX, !.y = targetY, !.z = targetZ,
                                    !.hasMoved = TRUE]
    IN  [cleared EXCEPT ![targetX][targetY][targetZ] = movedPiece]

\* executeMove, castle branch: the edge column the rook is taken from and the
\* column it is written to.
edgeColumn(move) == IF move.castle = "king" THEN 7 ELSE 0

rookColumn(move, targetX) == IF move.castle = "king" THEN targetX - 1 ELSE targetX + 1

\* executeMove, castle branch: newBoardState[targetX - 1] (or [targetX + 1]) is
\* undefined when that column is off the grid, and indexing it throws a
\* TypeError before setBoardState, setTurn and setSelectedPiece are reached.
castleThrows(board, piece, targetX, targetY, targetZ, move) ==
    /\ move.castle # "none"
    /\ placeMovedPiece(board, piece, targetX, targetY, targetZ)
            [edgeColumn(move)][targetY][targetZ] # null
    /\ rookColumn(move, targetX) \notin Coords

\* executeMove: the board handed to setBoardState.
executeMoveBoard(board, piece, targetX, targetY, targetZ, move) ==
    LET placed == placeMovedPiece(board, piece, targetX, targetY, targetZ)
    IN  IF move.castle # "none"
        THEN relocateRook(placed, edgeColumn(move), rookColumn(move, targetX),
                          targetY, targetZ)
        ELSE placed

\* Mutant of statusAfterCapture: any capture ends the game.
statusAfterCaptureOfAny(status, targetPiece, color) ==
    IF targetPiece # null THEN winStatus(color) ELSE status

\* Mutant of statusAfterCapture: the win goes to the side of the captured King.
statusAfterCaptureOfLoser(status, targetPiece, color) ==
    IF targetPiece # null /\ targetPiece.type = "K"
    THEN winStatus(targetPiece.color) ELSE status

\* executeMove and handlePromotion: the status after landing on targetPiece.
statusAfterCapture(status, targetPiece, color) ==
    IF targetPiece # null /\ targetPiece.type = "K" THEN winStatus(color) ELSE status

\* Mutant of capturedAfter: the piece is appended to the tally of the mover's
\* colour.
capturedAfterOwnKey(captured, targetPiece, color) ==
    IF targetPiece # null
    THEN [captured EXCEPT ![color] = Append(@, targetPiece)]
    ELSE captured

\* executeMove and handlePromotion: the tallies after landing on targetPiece.
capturedAfter(captured, targetPiece, color) ==
    IF targetPiece # null
    THEN [captured EXCEPT ![opponentColor(color)] = Append(@, targetPiece)]
    ELSE captured

\* Mutant of flipTurn: the turn is always handed to Black.
flipTurnToBlack(t) == "black"

\* setTurn(t => t === 'white' ? 'black' : 'white')
flipTurn(t) == IF t = "white" THEN "black" ELSE "white"

(***************************************************************************)
(* Bounds of the exploration                                               *)
(***************************************************************************)

\* Completed moves and promotions explored from the initial board.
MaxMoves == 11

\* The cells a square click is drawn from.
ClickCells ==
    { <<4, 3, 1>>, <<4, 3, 3>>, <<4, 3, 4>>, <<4, 3, 5>>, <<4, 2, 6>>, <<4, 3, 7>>,
      <<3, 2, 7>>,
      <<6, 0, 7>>, <<6, 1, 5>>, <<6, 2, 3>>, <<4, 2, 2>>, <<4, 3, 0>> }

\* The roles the promotion dialog hands to handlePromotion.
PromotionModalRoles == {"Q", "R", "B", "N"}

(***************************************************************************)
(* Handlers of App                                                         *)
(***************************************************************************)

Init ==
    /\ boardState = initializeBoardState
    /\ turn = "white"
    /\ selectedPiece = null
    /\ validMoves = <<>>
    /\ capturedPieces = [white |-> <<>>, black |-> <<>>]
    /\ gameStatus = "active"
    /\ promotionData = noPromotion
    /\ moveCount = 0
    /\ effectRender = "sync"

\* Mutant of executeMove: setSelectedPiece(null) is left out.
executeMoveKeepsSelection(piece, targetX, targetY, targetZ, move) ==
    IF isPromotionMove(piece, targetZ)
    THEN /\ promotionData' = [piece |-> piece, x |-> targetX, y |-> targetY, z |-> targetZ]
         /\ UNCHANGED <<boardState, turn, selectedPiece, validMoves, capturedPieces,
                        gameStatus, moveCount, effectRender>>
    ELSE LET targetPiece == JSONClone(boardState)[targetX][targetY][targetZ]
         IN  /\ gameStatus' = statusAfterCapture(gameStatus, targetPiece, piece.color)
             /\ capturedPieces' = capturedAfter(capturedPieces, targetPiece, piece.color)
             /\ boardState' = executeMoveBoard(boardState, piece, targetX,
                                               targetY, targetZ, move)
             /\ turn' = flipTurn(turn)
             /\ UNCHANGED selectedPiece
             /\ validMoves' = committedValidMoves(selectedPiece', boardState')
             /\ moveCount' = moveCount + 1
             /\ UNCHANGED <<promotionData, effectRender>>

\* executeMove(piece, targetX, targetY, targetZ, move), followed by the effect.
executeMove(piece, targetX, targetY, targetZ, move) ==
    IF isPromotionMove(piece, targetZ)
    THEN /\ promotionData' = [piece |-> piece, x |-> targetX, y |-> targetY, z |-> targetZ]
         /\ UNCHANGED <<boardState, turn, selectedPiece, validMoves, capturedPieces,
                        gameStatus, moveCount, effectRender>>
    ELSE LET targetPiece == JSONClone(boardState)[targetX][targetY][targetZ]
         IN  /\ gameStatus' = statusAfterCapture(gameStatus, targetPiece, piece.color)
             /\ capturedPieces' = capturedAfter(capturedPieces, targetPiece, piece.color)
             /\ IF castleThrows(boardState, piece, targetX, targetY, targetZ, move)
                THEN UNCHANGED <<boardState, turn, selectedPiece>>
                ELSE /\ boardState' = executeMoveBoard(boardState, piece, targetX,
                                                       targetY, targetZ, move)
                     /\ turn' = flipTurn(turn)
                     /\ selectedPiece' = null
             /\ validMoves' = committedValidMoves(selectedPiece', boardState')
             /\ moveCount' = moveCount + 1
             /\ UNCHANGED <<promotionData, effectRender>>

\* setSelectedPiece(p), followed by the effect.
setSelection(p) ==
    /\ selectedPiece' = p
    /\ validMoves' = committedValidMoves(selectedPiece', boardState)
    /\ UNCHANGED <<boardState, turn, capturedPieces, gameStatus, promotionData, moveCount,
                   effectRender>>

\* Mutant of clickIgnored: the game status is not tested.
clickIgnoredWhilePromotingOnly == promotionData # noPromotion

\* handleSquareClick: the early return on its first line.
clickIgnored == gameStatus # "active" \/ promotionData # noPromotion

\* handleSquareClick: boardState[x][y][z] throws a TypeError when boardState[x]
\* or boardState[x][y] is undefined, and nothing after it runs.
readThrows(x, y) == x \notin Coords \/ y \notin Coords

\* Mutant of selectable: a piece is selectable only while nothing is selected.
selectableWhenUnselected(clickedPiece) ==
    clickedPiece # null /\ clickedPiece.color = turn /\ selectedPiece = null

\* Mutant of selectable: the colour of the clicked piece is not tested.
selectableAnyColor(clickedPiece) == clickedPiece # null

\* handleSquareClick: clickedPiece && clickedPiece.color === turn
selectable(clickedPiece) == clickedPiece # null /\ clickedPiece.color = turn

\* handleSquareClick(x, y, z)
handleSquareClick(x, y, z) ==
    IF clickIgnored \/ readThrows(x, y)
    THEN UNCHANGED vars
    ELSE LET clickedPiece == cellAt(boardState, x, y, z)
         IN  IF selectedPiece # null
             THEN LET move == findMove(validMoves, x, y, z)
                  IN  IF move # undefined
                      THEN /\ moveCount < MaxMoves
                           /\ executeMove(selectedPiece, x, y, z, move)
                      ELSE IF selectable(clickedPiece)
                           THEN setSelection(clickedPiece)
                           ELSE setSelection(null)
             ELSE IF selectable(clickedPiece)
                  THEN setSelection(clickedPiece)
                  ELSE UNCHANGED vars

\* Mutant of handlePromotionBoard: the promoted piece is written as unmoved.
handlePromotionBoardUnmoved(board, data, promotedTo) ==
    LET newBoardState == JSONClone(board)
        cleared == [newBoardState EXCEPT ![data.piece.x][data.piece.y][data.piece.z] = null]
    IN  [cleared EXCEPT ![data.x][data.y][data.z] =
            Piece(promotedTo, data.piece.color, data.x, data.y, data.z, FALSE)]

\* handlePromotion: the board handed to setBoardState.
handlePromotionBoard(board, data, promotedTo) ==
    LET newBoardState == JSONClone(board)
        cleared == [newBoardState EXCEPT ![data.piece.x][data.piece.y][data.piece.z] = null]
    IN  [cleared EXCEPT ![data.x][data.y][data.z] =
            Piece(promotedTo, data.piece.color, data.x, data.y, data.z, TRUE)]

\* handlePromotion(promotedTo), followed by the effect.
handlePromotion(promotedTo) ==
    IF promotionData = noPromotion
    THEN UNCHANGED vars
    ELSE LET piece == promotionData.piece
             cleared == [JSONClone(boardState) EXCEPT ![piece.x][piece.y][piece.z] = null]
             targetPiece == cleared[promotionData.x][promotionData.y][promotionData.z]
         IN  /\ gameStatus' = statusAfterCapture(gameStatus, targetPiece, piece.color)
             /\ capturedPieces' = capturedAfter(capturedPieces, targetPiece, piece.color)
             /\ boardState' = handlePromotionBoard(boardState, promotionData, promotedTo)
             /\ turn' = flipTurn(turn)
             /\ selectedPiece' = null
             /\ promotionData' = noPromotion
             /\ validMoves' = committedValidMoves(selectedPiece', boardState')
             /\ moveCount' = moveCount + 1
             /\ UNCHANGED effectRender

SquareClick == \E c \in ClickCells : handleSquareClick(c[1], c[2], c[3])

Promotion == \E r \in PromotionModalRoles : handlePromotion(r)

Next == SquareClick \/ Promotion

Spec == Init /\ [][Next]_vars

(***************************************************************************)
(* calculateValidMoves on constructed boards: a board is built by placing   *)
(* pieces on the empty grid or on the starting layout, and the generator is *)
(* then called for one of its pieces; the call's arguments are kept in      *)
(* selectedPiece and boardState and its result in validMoves.               *)
(***************************************************************************)

\* Pieces placed on a constructed board.
MaxPlaced == 2

\* The cells pieces are placed on.
PlaceCells ==
    { <<3, 3, 1>>, <<3, 3, 2>>, <<3, 3, 3>>, <<3, 3, 4>>, <<3, 3, 5>>, <<3, 3, 6>>,
      <<3, 3, 7>>, <<4, 4, 2>>, <<4, 4, 5>>, <<5, 5, 3>>, <<4, 3, 3>> }

\* The cells whose piece the generator is called for.
GenerateCells == PlaceCells \cup { <<0, 1, 1>>, <<1, 0, 0>>, <<4, 3, 0>>, <<7, 7, 7>> }

\* The roles of the pieces placed after the first.
BlockerTypes == {"P"}

\* The grid the construction started from.
baseBoard == IF boardState[0][0][0] = null THEN EmptyBoard ELSE initializeBoardState

placedCells == {c \in PlaceCells : boardState[c[1]][c[2]][c[3]] # baseBoard[c[1]][c[2]][c[3]]}

InitMoves ==
    /\ boardState \in {EmptyBoard, initializeBoardState}
    /\ turn = "white"
    /\ selectedPiece = null
    /\ validMoves = <<>>
    /\ capturedPieces = [white |-> <<>>, black |-> <<>>]
    /\ gameStatus = "active"
    /\ promotionData = noPromotion
    /\ moveCount = 0
    /\ effectRender = "sync"

\* state[x][y][z] = { type, color, x, y, z, hasMoved: false } on an empty cell.
placePiece(type, color, x, y, z) ==
    /\ selectedPiece = null
    /\ boardState[x][y][z] = null
    /\ Cardinality(placedCells) < MaxPlaced
    /\ placedCells # {} => type \in BlockerTypes
    /\ boardState' = [boardState EXCEPT ![x][y][z] = Piece(type, color, x, y, z, FALSE)]
    /\ UNCHANGED <<turn, selectedPiece, validMoves, capturedPieces, gameStatus,
                   promotionData, moveCount, effectRender>>

\* calculateValidMoves(boardState[x][y][z], boardState)
generateMoves(x, y, z) ==
    /\ selectedPiece = null
    /\ boardState[x][y][z] # null
    /\ selectedPiece' = boardState[x][y][z]
    /\ validMoves' = calculateValidMoves(boardState[x][y][z], boardState)
    /\ UNCHANGED <<boardState, turn, capturedPieces, gameStatus, promotionData, moveCount,
                   effectRender>>

PlacePiece ==
    \E t \in PieceTypes, col \in Colors, c \in PlaceCells :
        placePiece(t, col, c[1], c[2], c[3])

GenerateMoves == \E c \in GenerateCells : generateMoves(c[1], c[2], c[3])

NextMoves == PlacePiece \/ GenerateMoves

SpecMoves == InitMoves /\ [][NextMoves]_vars

(***************************************************************************)
(* Properties of calculateValidMoves (checked under SpecMoves)             *)
(***************************************************************************)

\* The 26 vectors of the 3x3x3 neighbourhood, as a set.
NeighbourVectors == {d \in {-1, 0, 1} \X {-1, 0, 1} \X {-1, 0, 1} : d # <<0, 0, 0>>}

NonZeroAxes(d) == Cardinality({i \in 1 .. 3 : d[i] # 0})

\* The ray vectors the rules give each sliding role.
RoleVectors(type) ==
    CASE type = "R" -> {d \in NeighbourVectors : NonZeroAxes(d) = 1}
      [] type = "B" -> {d \in NeighbourVectors : NonZeroAxes(d) > 1}
      [] OTHER -> NeighbourVectors

\* The cell at distance k from piece p along d.
Along(p, d, k) == <<p.x + d[1] * k, p.y + d[2] * k, p.z + d[3] * k>>

InBoard(c) == c[1] \in Coords /\ c[2] \in Coords /\ c[3] \in Coords

Occupant(c) == boardState[c[1]][c[2]][c[3]]

\* Is c a legal landing cell for p: empty, or held by the other side?
Landable(p, c) == Occupant(c) = null \/ Occupant(c).color # p.color

\* The move to c, flagged as a capture iff c is occupied.
MoveTo(c) == Move(c[1], c[2], c[3], Occupant(c) # null)

\* The moves the ray rule gives piece p on the current board.
RayMoves(p) ==
    LET reach == IF p.type = "K" THEN 1 ELSE SIZE - 1
        ok(d, k) == /\ InBoard(Along(p, d, k))
                    /\ \A j \in 1 .. (k - 1) : Occupant(Along(p, d, j)) = null
                    /\ Landable(p, Along(p, d, k))
    IN  {MoveTo(Along(p, dk[1], dk[2])) :
            dk \in {e \in RoleVectors(p.type) \X (1 .. reach) : ok(e[1], e[2])}}

\* C1: for a Rook, Bishop, Queen or King, the result holds exactly the cells
\* at distance k >= 1 (k = 1 for the King) along one of the role's ray
\* vectors that are in bounds, have only empty cells before them on the ray,
\* and are empty (capture false) or hold an opposing piece (capture true);
\* the role's vectors are 6, 20 and 26 in number.
C1_SlidingMoves ==
    /\ Cardinality(RoleVectors("R")) = 6
    /\ Cardinality(RoleVectors("B")) = 20
    /\ Cardinality(RoleVectors("Q")) = 26
    /\ (selectedPiece # null /\ selectedPiece.type \in {"R", "B", "Q", "K"})
          => Range(validMoves) = RayMoves(selectedPiece)

\* A Rook's ray runs over an empty cell, captures an opposing piece at
\* distance 2 and does not reach the cell behind it.
C1_Witness ==
    /\ selectedPiece # null
    /\ selectedPiece.type = "R"
    /\ selectedPiece.color = "white"
    /\ Along(selectedPiece, <<0, 0, 1>>, 3)[3] < SIZE
    /\ Occupant(Along(selectedPiece, <<0, 0, 1>>, 1)) = null
    /\ Occupant(Along(selectedPiece, <<0, 0, 1>>, 2)).color = "black"
    /\ MoveTo(Along(selectedPiece, <<0, 0, 1>>, 2)) \in Range(validMoves)
    /\ \A m \in Range(validMoves) :
          <<m.x, m.y, m.z>> # Along(selectedPiece, <<0, 0, 1>>, 3)

Forward(p) == IF p.color = "white" THEN 1 ELSE -1

StartRank(p) == IF p.color = "white" THEN 1 ELSE 6

\* The non-capture moves the pawn rule gives p on the current board.
PawnSteps(p) ==
    LET one == Along(p, <<0, 0, Forward(p)>>, 1)
        two == Along(p, <<0, 0, Forward(p)>>, 2)
    IN  {MoveTo(c) : c \in {e \in {one} : InBoard(e) /\ Occupant(e) = null}}
        \cup {MoveTo(c) : c \in {e \in {two} : /\ p.z = StartRank(p)
                                               /\ Occupant(one) = null
                                               /\ Occupant(e) = null}}

\* C2: a Pawn's non-capture moves are exactly the single forward step iff
\* that cell is in bounds and empty, and the double step iff the pawn is on
\* its starting rank and both forward cells are empty; on the starting layout
\* the White pawn at (0,1,1) has exactly (0,1,2) and (0,1,3), not captures.
C2_PawnForward ==
    /\ (selectedPiece # null /\ selectedPiece.type = "P")
          => {m \in Range(validMoves) : ~m.capture} = PawnSteps(selectedPiece)
    /\ (boardState = initializeBoardState /\ selectedPiece = boardState[0][1][1])
          => Range(validMoves) = {Move(0, 1, 2, FALSE), Move(0, 1, 3, FALSE)}

\* A pawn on its starting rank whose next cell is empty and whose second
\* cell is occupied: the single step is returned, the double step is not.
C2_Witness ==
    /\ selectedPiece # null
    /\ selectedPiece.type = "P"
    /\ selectedPiece.z = StartRank(selectedPiece)
    /\ Occupant(Along(selectedPiece, <<0, 0, Forward(selectedPiece)>>, 1)) = null
    /\ Occupant(Along(selectedPiece, <<0, 0, Forward(selectedPiece)>>, 2)) # null
    /\ {m \in Range(validMoves) : ~m.capture}
          = {MoveTo(Along(selectedPiece, <<0, 0, Forward(selectedPiece)>>, 1))}

\* The 8 sideways offsets of a pawn capture.
PawnOffsets == {o \in {-1, 0, 1} \X {-1, 0, 1} : o # <<0, 0>>}

PawnTarget(p, o) == <<p.x + o[1], p.y + o[2], p.z + Forward(p)>>

MovesAt(c) == {m \in Range(validMoves) : <<m.x, m.y, m.z>> = c}

\* C3: for a Pawn and each of the 8 offsets, the diagonal target is in the
\* result iff it is in bounds and holds an opposing piece, and it is then
\* flagged as a capture; no other capture is returned.
C3_PawnCapture ==
    (selectedPiece # null /\ selectedPiece.type = "P")
       => /\ Cardinality(PawnOffsets) = 8
          /\ \A o \in PawnOffsets :
                LET t == PawnTarget(selectedPiece, o)
                IN  /\ (MovesAt(t) # {}) <=>
                           (/\ InBoard(t)
                            /\ Occupant(t) # null
                            /\ Occupant(t).color # selectedPiece.color)
                    /\ \A m \in MovesAt(t) : m.capture
          /\ \A m \in Range(validMoves) :
                m.capture => \E o \in PawnOffsets :
                                <<m.x, m.y, m.z>> = PawnTarget(selectedPiece, o)

\* A pawn with an opposing piece on one diagonal target and another diagonal
\* target empty: the first is returned as a capture, the second is not returned.
C3_Witness ==
    /\ selectedPiece # null
    /\ selectedPiece.type = "P"
    /\ \E o1 \in PawnOffsets, o2 \in PawnOffsets :
          LET t1 == PawnTarget(selectedPiece, o1)
              t2 == PawnTarget(selectedPiece, o2)
          IN  /\ InBoard(t1) /\ InBoard(t2)
              /\ Occupant(t1) # null /\ Occupant(t1).color # selectedPiece.color
              /\ Occupant(t2) = null
              /\ MoveTo(t1) \in Range(validMoves)
              /\ MovesAt(t2) = {}

\* The offsets with one coordinate of magnitude 2, one of 1 and one 0.
KnightOffsets ==
    {o \in (-2 .. 2) \X (-2 .. 2) \X (-2 .. 2) :
        {Abs(o[1]), Abs(o[2]), Abs(o[3])} = {0, 1, 2}}

\* C4: a Knight's result is exactly the cells reached by the 24 offsets that
\* are in bounds and empty or held by an opposing piece, whatever stands in
\* between; capture is true iff the target is occupied.
C4_KnightMoves ==
    /\ Cardinality(KnightOffsets) = 24
    /\ (selectedPiece # null /\ selectedPiece.type = "N")
          => Range(validMoves) =
                {MoveTo(c) : c \in {Along(selectedPiece, o, 1) : o \in
                    {e \in KnightOffsets : /\ InBoard(Along(selectedPiece, e, 1))
                                           /\ Landable(selectedPiece,
                                                       Along(selectedPiece, e, 1))}}}

\* A knight with one target held by an own piece, one held by an opposing
\* piece and an occupied cell next to it: the opposing target is a capture,
\* the own target is absent.
C4_Witness ==
    /\ selectedPiece # null
    /\ selectedPiece.type = "N"
    /\ \E o1 \in KnightOffsets, o2 \in KnightOffsets :
          LET t1 == Along(selectedPiece, o1, 1)
              t2 == Along(selectedPiece, o2, 1)
          IN  /\ InBoard(t1) /\ InBoard(t2)
              /\ Occupant(t1) # null /\ Occupant(t1).color # selectedPiece.color
              /\ Occupant(t2) # null /\ Occupant(t2).color = selectedPiece.color
              /\ MoveTo(t1) \in Range(validMoves)
              /\ MovesAt(t2) = {}

\* C5: every move returned for a piece standing on the board has x, y and z
\* in 0..7.
C5_MovesInBounds ==
    \A m \in Range(validMoves) : m.x \in 0 .. 7 /\ m.y \in 0 .. 7 /\ m.z \in 0 .. 7

\* A Rook or Queen below the last layer whose ray ends on the last layer.
C5_Witness ==
    /\ selectedPiece # null
    /\ selectedPiece.type \in {"R", "Q"}
    /\ selectedPiece.z < SIZE - 1
    /\ \E m \in Range(validMoves) : m.z = SIZE - 1

(***************************************************************************)
(* Properties of the starting layout and of the session (checked under     *)
(* Spec)                                                                   *)
(***************************************************************************)

Cells == Coords \X Coords \X Coords

\* The pieces of one role and side on the current board.
PiecesOf(type, color) ==
    {c \in Cells : Occupant(c) # null /\ Occupant(c).type = type
                   /\ Occupant(c).color = color}

\* The role each pattern letter stands for.
RoleOfLetter ==
    [r |-> "R", n |-> "N", b |-> "B", q |-> "Q", k |-> "K", p |-> "P"]

\* The major-piece rows, row y from the top, one letter per x.
MajorRows ==
    << <<"r", "n", "b", "r", "r", "b", "n", "r">>,
       <<"n", "n", "b", "q", "q", "b", "n", "n">>,
       <<"b", "b", "b", "q", "q", "b", "b", "b">>,
       <<"r", "q", "q", "q", "k", "q", "q", "r">>,
       <<"r", "q", "q", "q", "q", "q", "q", "r">>,
       <<"b", "b", "b", "q", "q", "b", "b", "b">>,
       <<"n", "n", "b", "q", "q", "b", "n", "n">>,
       <<"r", "n", "b", "r", "r", "b", "n", "r">> >>

\* C6: before any move the board is the fixed starting layout: pawns on all
\* of layers 1 and 6, the major-piece pattern on layers 0 and 7, layers 2..5
\* empty, White on z = 0, 1 and Black on z = 6, 7, every piece unmoved with
\* stored coordinates equal to its cell; each side has 64 Pawns, 12 Rooks,
\* 12 Knights, 20 Bishops, 19 Queens and one King, at x = 4, y = 3.
C6_StartingLayout ==
    moveCount = 0 =>
       /\ \A c \in Cells :
             LET p == Occupant(c)
             IN  /\ c[3] \in {1, 6} => p # null /\ p.type = "P"
                 /\ c[3] \in {0, 7} =>
                       p # null /\ p.type = RoleOfLetter[MajorRows[c[2] + 1][c[1] + 1]]
                 /\ c[3] \in 2 .. 5 => p = null
                 /\ p # null =>
                       /\ p.color = (IF c[3] \in {0, 1} THEN "white" ELSE "black")
                       /\ p.hasMoved = FALSE
                       /\ <<p.x, p.y, p.z>> = c
       /\ \A col \in Colors :
             /\ Cardinality(PiecesOf("P", col)) = 64
             /\ Cardinality(PiecesOf("R", col)) = 12
             /\ Cardinality(PiecesOf("N", col)) = 12
             /\ Cardinality(PiecesOf("B", col)) = 20
             /\ Cardinality(PiecesOf("Q", col)) = 19
       /\ PiecesOf("K", "white") = {<<4, 3, 0>>}
       /\ PiecesOf("K", "black") = {<<4, 3, 7>>}

\* The session right after construction.
C6_Witness ==
    /\ moveCount = 0
    /\ boardState = initializeBoardState
    /\ selectedPiece = null
    /\ Occupant(<<4, 3, 0>>).type = "K"

\* The cells on which this step put a piece that was not there before.
LandedOn == {c \in Cells : Occupant(c)' # Occupant(c) /\ Occupant(c)' # null}

\* C7: a step that lands a piece on a cell held by a King, by an executed
\* move or a completed promotion, sets the status to the win of the moving
\* side in that step, the cell then holds the capturing piece, and the
\* captured King is on the board no more.
C7_KingCapture ==
    [][\A c \in LandedOn :
          Occupant(c).type = "K" =>
             /\ Occupant(c).color # turn
             /\ gameStatus' = winStatus(turn)
             /\ Occupant(c)'.color = turn
             /\ \A e \in Cells : ~(Occupant(e)'.type = "K"
                                   /\ Occupant(e)'.color = Occupant(c).color)]_vars

\* White has won by completing a promotion on the cell of the Black King.
C7_Witness ==
    /\ gameStatus = "WHITE WINS!"
    /\ Occupant(<<4, 3, 7>>).color = "white"
    /\ Occupant(<<4, 3, 7>>).type \in PromotionModalRoles
    /\ Occupant(<<4, 2, 6>>) = null
    /\ PiecesOf("K", "black") = {}

\* C8: once the status is a win, no later square click or promotion request
\* changes the board, the turn, the selection, the tallies or the status.
C8_TerminalAbsorbing ==
    [][gameStatus # "active" =>
          UNCHANGED <<boardState, turn, selectedPiece, validMoves, capturedPieces,
                      gameStatus, promotionData>>]_vars

\* Black has won by capturing the White King with an executed move.
C8_Witness ==
    /\ gameStatus = "BLACK WINS!"
    /\ PiecesOf("K", "white") = {}
    /\ promotionData = noPromotion

\* C9: White moves first, and the turn flips in exactly the steps that
\* replace the board (a completed move or a completed promotion); any other
\* step (selecting, deselecting, a rejected click, entering promotion-pending)
\* leaves it unchanged.
C9_TurnFlips ==
    /\ turn = "white"
    /\ [][IF boardState' # boardState
          THEN turn' = (IF turn = "white" THEN "black" ELSE "white")
          ELSE turn' = turn]_vars

\* Black is to move after White completed a promotion that did not end the game.
C9_Witness ==
    /\ turn = "black"
    /\ gameStatus = "active"
    /\ Occupant(<<3, 2, 7>>).color = "white"
    /\ Occupant(<<3, 2, 7>>).type \in PromotionModalRoles
    /\ Occupant(<<3, 2, 7>>).hasMoved
    /\ PiecesOf("K", "black") = {<<4, 3, 7>>}

FarRank(color) == IF color = "white" THEN 7 ELSE 0

\* C10: a move of a Pawn to its far rank only records the pending promotion:
\* board, turn, tallies and status stay as they are, also when the
\* destination is occupied; no executed move puts a Pawn on its far rank;
\* and while a promotion is pending the only step that changes anything is
\* its completion.
C10_PromotionPending ==
    [][/\ (promotionData = noPromotion /\ promotionData' # noPromotion) =>
             /\ UNCHANGED <<boardState, turn, capturedPieces, gameStatus>>
             /\ promotionData'.piece = selectedPiece
             /\ selectedPiece.type = "P"
             /\ promotionData'.z = FarRank(selectedPiece.color)
             /\ Occupant(<<selectedPiece.x, selectedPiece.y, selectedPiece.z>>)
                   = selectedPiece
       /\ promotionData = noPromotion =>
             \A c \in LandedOn :
                Occupant(c)'.type = "P" => c[3] # FarRank(Occupant(c)'.color)
       /\ promotionData # noPromotion =>
             /\ promotionData' = noPromotion
             /\ LandedOn = {<<promotionData.x, promotionData.y, promotionData.z>>}]_vars

\* A promotion is pending on the cell of the Black King: the King is still
\* on the board, nothing has been captured for it and the game is active.
C10_Witness ==
    /\ promotionData # noPromotion
    /\ <<promotionData.x, promotionData.y, promotionData.z>> = <<4, 3, 7>>
    /\ Occupant(<<4, 3, 7>>).type = "K"
    /\ gameStatus = "active"
    /\ turn = "white"

(***************************************************************************)
(* Properties of the handlers, step by step (checked under Spec)           *)
(***************************************************************************)

\* The cell a piece's stored coordinates name.
CellOf(p) == <<p.x, p.y, p.z>>

\* The occupant of cell c after the step.
OccupantAfter(c) == boardState'[c[1]][c[2]][c[3]]

\* C11: completing a pending promotion with a chosen role empties the pawn's
\* origin cell and puts on the destination a piece of that role and of the
\* promoting side, with stored coordinates equal to the destination and
\* hasMoved set; a previous occupant of the destination is appended to the
\* tally of its side and, if it is a King, the status becomes the win of the
\* promoting side; every other cell, the other tally and, without a King
\* capture, the status stay as they are; the pending promotion and the
\* selection are cleared.
C11_PromotionCompleted ==
    [][\A r \in PieceTypes :
          (promotionData # noPromotion /\ handlePromotion(r)) =>
             LET pawn == promotionData.piece
                 dest == <<promotionData.x, promotionData.y, promotionData.z>>
                 taken == Occupant(dest)
             IN  /\ OccupantAfter(CellOf(pawn)) = null
                 /\ OccupantAfter(dest) = Piece(r, pawn.color, dest[1], dest[2], dest[3], TRUE)
                 /\ \A c \in Cells \ {CellOf(pawn), dest} : OccupantAfter(c) = Occupant(c)
                 /\ IF taken # null
                    THEN /\ capturedPieces'[taken.color]
                               = Append(capturedPieces[taken.color], taken)
                         /\ capturedPieces'[pawn.color] = capturedPieces[pawn.color]
                    ELSE capturedPieces' = capturedPieces
                 /\ gameStatus' = IF taken # null /\ taken.type = "K"
                                  THEN winStatus(pawn.color) ELSE gameStatus
                 /\ promotionData' = noPromotion
                 /\ selectedPiece' = null]_vars

\* A promotion has been completed on an occupied cell of the far rank: a
\* moved White piece of a dialog role stands on layer 7, the piece it took is
\* the last of the Black tally, and nothing is pending or selected.
C11_Witness ==
    /\ promotionData = noPromotion
    /\ selectedPiece = null
    /\ \E c \in Cells :
          /\ c[3] = 7
          /\ Occupant(c) # null
          /\ Occupant(c).color = "white"
          /\ Occupant(c).type \in PromotionModalRoles
          /\ Occupant(c).hasMoved
          /\ CellOf(Occupant(c)) = c
          /\ capturedPieces["black"] # <<>>
          /\ CellOf(capturedPieces["black"][Len(capturedPieces["black"])]) = c

\* The move a click on cell c is matched with, undefined if there is none.
MoveOnClick(c) == findMove(validMoves, c[1], c[2], c[3])

\* C13: executing a move that is neither a promotion nor a castle yields a
\* board that differs from the previous one at two cells only: the origin,
\* now empty, and the destination, now holding the mover with its role and
\* side, stored coordinates equal to the destination and hasMoved set.
C13_MoveFrame ==
    [][\A c \in ClickCells :
          (/\ ~clickIgnored
           /\ selectedPiece # null
           /\ MoveOnClick(c) # undefined
           /\ MoveOnClick(c).castle = "none"
           /\ ~isPromotionMove(selectedPiece, c[3])
           /\ handleSquareClick(c[1], c[2], c[3])) =>
             LET origin == CellOf(selectedPiece)
                 mover == Occupant(origin)
             IN  /\ mover = selectedPiece
                 /\ origin # c
                 /\ OccupantAfter(origin) = null
                 /\ OccupantAfter(c) =
                       Piece(mover.type, mover.color, c[1], c[2], c[3], TRUE)
                 /\ \A e \in Cells \ {origin, c} : OccupantAfter(e) = Occupant(e)]_vars

\* Moves with and without a capture have been executed: the White pawn
\* stands moved on (4,3,3) with its start cell empty, and a moved Black piece
\* stands on the cell of the first White piece taken.
C13_Witness ==
    /\ Occupant(<<4, 3, 1>>) = null
    /\ Occupant(<<4, 3, 3>>) = Piece("P", "white", 4, 3, 3, TRUE)
    /\ \E c \in ClickCells :
          /\ Occupant(c) # null
          /\ Occupant(c).hasMoved
          /\ Occupant(c).color = "black"
          /\ capturedPieces["white"] # <<>>
          /\ CellOf(capturedPieces["white"][1]) = c

\* C14: in every reachable state a cell holds one piece or none, and the
\* stored coordinates of every piece on the board name the cell it occupies;
\* so no two cells hold pieces with the same stored coordinates.
C14_CoordsMatchCell ==
    /\ \A c \in Cells :
          /\ Occupant(c) = null
                \/ Occupant(c) \in [type : PieceTypes, color : Colors, x : Coords,
                                    y : Coords, z : Coords, hasMoved : BOOLEAN]
          /\ Occupant(c) # null => CellOf(Occupant(c)) = c
    /\ \A c, e \in ClickCells :
          (Occupant(c) # null /\ Occupant(e) # null /\ c # e) =>
             CellOf(Occupant(c)) # CellOf(Occupant(e))

\* Moved pieces of both sides and a promoted piece stand on the board: a
\* White piece of a dialog role on layer 7 and a moved Black piece below
\* layer 6.
C14_Witness ==
    /\ \E c \in ClickCells :
          /\ c[3] = 7
          /\ Occupant(c) # null
          /\ Occupant(c).color = "white"
          /\ Occupant(c).type \in PromotionModalRoles
    /\ \E c \in ClickCells :
          /\ c[3] < 6
          /\ Occupant(c) # null
          /\ Occupant(c).color = "black"
          /\ Occupant(c).hasMoved

\* Cell c holds a piece of the side not to move and no move of the current
\* list lands on it.
OpposingNonTarget(c) ==
    /\ Occupant(c) # null
    /\ Occupant(c).color # turn
    /\ MoveOnClick(c) = undefined

\* C16 as stated: in an active game a click on a cell that holds a piece of
\* the side not to move and is not a valid-move target changes nothing:
\* selection, board, turn, tallies and status stay as they are, whether or
\* not a piece is selected.
C16_OpposingClickNoOp ==
    [][\A c \in ClickCells :
          (~clickIgnored /\ OpposingNonTarget(c)
           /\ handleSquareClick(c[1], c[2], c[3])) =>
             UNCHANGED <<selectedPiece, boardState, turn, capturedPieces,
                         gameStatus>>]_vars

\* C16 amended: in an active game a click on a cell that holds a piece of the
\* side not to move and is not a valid-move target never selects that piece
\* and leaves board, turn, tallies, status and pending promotion as they are;
\* the selection is empty afterwards: unchanged when nothing was selected,
\* cleared when a piece was selected.
C16_OpposingClickDeselects ==
    [][\A c \in ClickCells :
          (~clickIgnored /\ OpposingNonTarget(c)
           /\ handleSquareClick(c[1], c[2], c[3])) =>
             /\ UNCHANGED <<boardState, turn, capturedPieces, gameStatus,
                            promotionData>>
             /\ selectedPiece' = null
             /\ validMoves' = <<>>]_vars

\* A piece of the side to move is selected in an active game and a click
\* cell holds an opposing piece that none of its moves lands on.
C16_Witness ==
    /\ ~clickIgnored
    /\ selectedPiece # null
    /\ selectedPiece.color = turn
    /\ \E c \in ClickCells : OpposingNonTarget(c)

\* C17: in an active game with a piece selected, a click on an empty cell
\* that no move of the list lands on clears the selection and leaves board,
\* turn, tallies and status as they are; a click on another piece of the side
\* to move that no move of the list lands on makes that piece the selection
\* and leaves the same variables as they are.
C17_DeselectOrReselect ==
    [][\A c \in ClickCells :
          (/\ ~clickIgnored
           /\ selectedPiece # null
           /\ MoveOnClick(c) = undefined
           /\ handleSquareClick(c[1], c[2], c[3])) =>
             /\ UNCHANGED <<boardState, turn, capturedPieces, gameStatus,
                            promotionData>>
             /\ Occupant(c) = null => selectedPiece' = null
             /\ (Occupant(c) # null /\ Occupant(c).color = turn) =>
                   selectedPiece' = Occupant(c)]_vars

\* A White piece is selected in an active game while another White piece
\* and an empty cell that none of its moves lands on are among the click
\* cells.
C17_Witness ==
    /\ ~clickIgnored
    /\ selectedPiece # null
    /\ \E c, e \in ClickCells :
          /\ MoveOnClick(c) = undefined
          /\ MoveOnClick(e) = undefined
          /\ Occupant(c) = null
          /\ Occupant(e) # null
          /\ Occupant(e).color = turn
          /\ Occupant(e) # selectedPiece

(***************************************************************************)
(* Invariants of the session (checked under Spec)                          *)
(***************************************************************************)

\* C21: in every reachable state a selected piece belongs to the side to move
\* and the cell its stored coordinates name holds that very piece, with the
\* same role, side and hasMoved; this holds while a promotion is pending too.
C21_SelectionOnBoard ==
    selectedPiece # null =>
       /\ selectedPiece.color = turn
       /\ InBoard(CellOf(selectedPiece))
       /\ Occupant(CellOf(selectedPiece)) = selectedPiece

\* A promotion is pending for the selected pawn, which has moved and stands
\* on the cell its stored coordinates name.
C21_Witness ==
    /\ promotionData # noPromotion
    /\ selectedPiece # null
    /\ selectedPiece = promotionData.piece
    /\ selectedPiece.hasMoved
    /\ Occupant(CellOf(selectedPiece)) = selectedPiece

\* The number of pieces on a board.
PieceCount(board) == Cardinality({c \in Cells : board[c[1]][c[2]][c[3]] # null})

\* Pieces on the board and in the two tallies add up to 256, and every piece
\* of a tally has the colour the tally is keyed by.
Conserved(board, captured) ==
    /\ PieceCount(board) + Len(captured["white"]) + Len(captured["black"]) = 256
    /\ \A col \in Colors :
          \A i \in 1 .. Len(captured[col]) : captured[col][i].color = col

\* C22: in every reachable state the pieces on the board plus the sizes of
\* the two tallies are 256 and a tally holds only pieces of its colour; a
\* step leaves a tally as it is or appends one piece to it, at most one tally
\* grows, it grows exactly when the board loses a piece, and the piece
\* appended was taken by the side to move, which is the other colour.
C22_PiecesConserved ==
    /\ Conserved(boardState, capturedPieces)
    /\ [][/\ Conserved(boardState', capturedPieces')
          /\ \A col \in Colors :
                \/ capturedPieces'[col] = capturedPieces[col]
                \/ /\ Len(capturedPieces'[col]) = Len(capturedPieces[col]) + 1
                   /\ SubSeq(capturedPieces'[col], 1, Len(capturedPieces[col]))
                         = capturedPieces[col]
                   /\ col # turn
                   /\ capturedPieces'[opponentColor(col)]
                         = capturedPieces[opponentColor(col)]
                   /\ PieceCount(boardState') = PieceCount(boardState) - 1
          /\ PieceCount(boardState') # PieceCount(boardState) =>
                capturedPieces' # capturedPieces]_vars

\* Both sides have taken a piece: each tally holds a piece of its colour and
\* the board holds fewer than 256 pieces.
C22_Witness ==
    /\ capturedPieces["white"] # <<>>
    /\ capturedPieces["black"] # <<>>
    /\ capturedPieces["white"][1].color = "white"
    /\ capturedPieces["black"][1].color = "black"
    /\ PieceCount(boardState) < 256

\* C23: with promotion limited to Rook, Knight, Bishop and Queen, in every
\* reachable state each side has at most one King, the status is active
\* exactly when both Kings are on the board, and a terminal status names
\* the side whose King is still on the board.
C23_KingsAndStatus ==
    /\ \A col \in Colors : Cardinality(PiecesOf("K", col)) <= 1
    /\ gameStatus = "active" <=>
          (PiecesOf("K", "white") # {} /\ PiecesOf("K", "black") # {})
    /\ gameStatus # "active" =>
          \E col \in Colors :
             /\ gameStatus = winStatus(col)
             /\ PiecesOf("K", col) # {}
             /\ PiecesOf("K", opponentColor(col)) = {}

\* Black has won: the White King is off the board and in the White tally,
\* the Black King stands on (4,3,7).
C23_Witness ==
    /\ gameStatus = winStatus("black")
    /\ PiecesOf("K", "white") = {}
    /\ PiecesOf("K", "black") = {<<4, 3, 7>>}
    /\ \E i \in 1 .. Len(capturedPieces["white"]) : capturedPieces["white"][i].type = "K"

\* No move of a list carries a castle tag.
NoCastleTag(moves) == \A m \in Range(moves) : m.castle = "none"

\* The cells whose occupant the step changes.
ChangedCells == {c \in Cells : OccupantAfter(c) # Occupant(c)}

\* C24: no move calculateValidMoves returns for a selected piece, Kings
\* included, carries a castle tag; so no click executes a tagged move, the
\* rook relocation of executeMove is never taken, and a step changes no cell
\* other than the origin of the selected piece and the clicked destination.
C24_NoCastleInSession ==
    /\ NoCastleTag(validMoves)
    /\ [][/\ NoCastleTag(validMoves')
          /\ \A c \in ClickCells :
                (/\ ~clickIgnored
                 /\ selectedPiece # null
                 /\ MoveOnClick(c) # undefined
                 /\ handleSquareClick(c[1], c[2], c[3])) =>
                   /\ MoveOnClick(c).castle = "none"
                   /\ ChangedCells \subseteq {CellOf(selectedPiece), c}
          /\ Cardinality(ChangedCells) <= 2]_vars

\* A King that has moved is selected again and has moves to choose from.
C24_Witness ==
    /\ selectedPiece # null
    /\ selectedPiece.type = "K"
    /\ selectedPiece.hasMoved
    /\ validMoves # <<>>

\* On a board every Pawn stands on a layer in 1 .. 6 and every piece with
\* hasMoved unset is the piece of its cell in the starting layout.
PawnsInsideUnmovedAtHome(board) ==
    \A c \in Cells :
       LET p == board[c[1]][c[2]][c[3]]
       IN  p # null =>
              /\ p.type = "P" => c[3] \in 1 .. 6
              /\ ~p.hasMoved => p = initializeBoardState[c[1]][c[2]][c[3]]

\* C25: in every reachable state every Pawn stands on a layer z in 1 .. 6,
\* so none is on its far rank (7 for White, 0 for Black) or on its own back
\* rank, and every piece with hasMoved unset stands on the cell where the
\* starting layout placed it; a Pawn only ever lands one or two layers
\* nearer to its far rank than it stood.
C25_PawnLayersAndUnmoved ==
    /\ PawnsInsideUnmovedAtHome(boardState)
    /\ [][/\ PawnsInsideUnmovedAtHome(boardState')
          /\ \A c \in LandedOn :
                OccupantAfter(c).type = "P" =>
                   /\ selectedPiece # null
                   /\ selectedPiece.type = "P"
                   /\ c[3] - selectedPiece.z \in
                         IF OccupantAfter(c).color = "white" THEN {1, 2} ELSE {-1, -2}]_vars

\* The White pawn of (4,3,1) has advanced and captured its way to (4,2,6),
\* one layer from its far rank.
C25_Witness ==
    /\ Occupant(<<4, 2, 6>>) # null
    /\ Occupant(<<4, 2, 6>>).type = "P"
    /\ Occupant(<<4, 2, 6>>).color = "white"
    /\ Occupant(<<4, 2, 6>>).hasMoved
    /\ Occupant(<<4, 3, 1>>) = null

(***************************************************************************)
(* handlePromotion called with any role of Piece['type']                   *)
(***************************************************************************)

\* handlePromotion(promotedTo: Piece['type']): the parameter's type admits all
\* six roles.
PromotionAnyRole == \E r \in PieceTypes : handlePromotion(r)

NextAnyRole == SquareClick \/ PromotionAnyRole

SpecAnyRole == Init /\ [][NextAnyRole]_vars

\* C12: completing a pending promotion with the role King or Pawn is
\* rejected: board, turn, tallies, status and the pending promotion stay as
\* they are, so no King or Pawn is placed.
C12_KingPawnRejected ==
    [][\A r \in {"K", "P"} :
          (promotionData # noPromotion /\ handlePromotion(r)) =>
             UNCHANGED <<boardState, turn, capturedPieces, gameStatus,
                         promotionData>>]_vars

(***************************************************************************)
(* executeMove called with a castle-tagged move: calculateValidMoves never  *)
(* sets the tag, so the castle branch is exercised by calling executeMove   *)
(* for the King of the side to move with a tagged move, from the starting   *)
(* layout onwards.                                                          *)
(***************************************************************************)

\* Castle-tagged moves applied from the starting layout.
MaxCastles == 2

\* The destinations of the tagged moves: the Kings' rows on layers 0 and 7, a
\* row whose edge cells hold Bishops and a row whose edge cells are empty.
CastleTargets ==
    { <<0, 3, 0>>, <<3, 3, 0>>, <<5, 3, 0>>, <<6, 3, 0>>, <<7, 3, 0>>,
      <<0, 3, 7>>, <<3, 3, 7>>, <<5, 3, 7>>, <<6, 3, 7>>, <<7, 3, 7>>,
      <<5, 2, 0>>, <<5, 3, 3>> }

\* The values of Move.castle.
CastleTags == {"king", "queen"}

\* executeMove(king, x, y, z, { x, y, z, capture, castle: tag }) for the King
\* of the side to move.
castleMove(x, y, z, tag) ==
    /\ ~clickIgnored
    /\ moveCount < MaxCastles
    /\ \E k \in PiecesOf("K", turn) :
          /\ k # <<x, y, z>>
          /\ executeMove(Occupant(k), x, y, z,
                         [MoveTo(<<x, y, z>>) EXCEPT !.castle = tag])

CastleMove == \E c \in CastleTargets, tag \in CastleTags : castleMove(c[1], c[2], c[3], tag)

NextCastle == CastleMove

SpecCastle == Init /\ [][NextCastle]_vars

\* The edge cell of the row and layer of destination c for a tag, and the
\* cell next to c that the tag names for the rook.
EdgeCell(c, tag) == <<IF tag = "king" THEN 7 ELSE 0, c[2], c[3]>>

RookCell(c, tag) == <<IF tag = "king" THEN c[1] - 1 ELSE c[1] + 1, c[2], c[3]>>

\* A Rook of the side to move stands on the edge cell for c and the tag, and
\* c is another cell.
OwnRookOnEdge(c, tag) ==
    /\ Occupant(EdgeCell(c, tag)) # null
    /\ Occupant(EdgeCell(c, tag)).type = "R"
    /\ Occupant(EdgeCell(c, tag)).color = turn
    /\ c # EdgeCell(c, tag)

\* What C15 states of the board after the tagged move to c: the King on c,
\* the Rook on the cell next to it with hasMoved set and stored coordinates
\* equal to that cell, the edge cell empty.
Castled(c, tag) ==
    /\ OccupantAfter(c) = Piece("K", turn, c[1], c[2], c[3], TRUE)
    /\ OccupantAfter(EdgeCell(c, tag)) = null
    /\ OccupantAfter(RookCell(c, tag)) =
          Piece("R", turn, RookCell(c, tag)[1], c[2], c[3], TRUE)

OnEdgeAfterKing(c, tag) ==
    IF EdgeCell(c, tag) = c THEN Piece("K", turn, c[1], c[2], c[3], TRUE)
    ELSE IF EdgeCell(c, tag) \in PiecesOf("K", turn) THEN null
    ELSE Occupant(EdgeCell(c, tag))

\* C20: when a castle-tagged King move is applied, a piece is taken off the
\* edge cell only if it is a Rook: a piece of another role on that cell,
\* whichever its side and also when it is the King that has just moved onto
\* the cell, stays on it.
C20_OnlyRookRelocated ==
    [][\A c \in CastleTargets, tag \in CastleTags :
          (/\ castleMove(c[1], c[2], c[3], tag)
           /\ OnEdgeAfterKing(c, tag) # null
           /\ OnEdgeAfterKing(c, tag).type # "R") =>
             OccupantAfter(EdgeCell(c, tag)) = OnEdgeAfterKing(c, tag)]_vars

(***************************************************************************)
(* handleSquareClick called with coordinates off the grid: the handler     *)
(* takes three numbers and LayerCanvas.handleClick passes on the cell it    *)
(* computes from the pointer position without a range test.                 *)
(***************************************************************************)

\* Coordinate triples with a component outside 0 .. 7.
OutOfBoundsCells ==
    { <<4, 3, 8>>, <<4, 3, -1>>, <<8, 3, 1>>, <<-1, 3, 1>>, <<4, 8, 1>>, <<4, -1, 8>> }

OutOfBoundsClick == \E c \in OutOfBoundsCells : handleSquareClick(c[1], c[2], c[3])

NextOutOfBounds == SquareClick \/ Promotion \/ OutOfBoundsClick

SpecOutOfBounds == Init /\ [][NextOutOfBounds]_vars

\* C18: a square click whose coordinate triple has a component outside
\* 0 .. 7 changes no session state: selection, move list, board, turn,
\* tallies, status and pending promotion stay as they are; the triple is
\* never handled as an empty cell.
C18_OutOfBoundsClickRejected ==
    [][\A c \in OutOfBoundsCells :
          handleSquareClick(c[1], c[2], c[3]) =>
             UNCHANGED <<selectedPiece, validMoves, boardState, turn, capturedPieces,
                         gameStatus, promotionData>>]_vars

(***************************************************************************)
(* The session with the effect's render deferred: the effect calls          *)
(* setValidMoves after the render that changed selectedPiece or boardState  *)
(* has been committed, and the render that setValidMoves schedules is a     *)
(* task of its own; a click dispatched before that task is handled by the   *)
(* handler of the committed render, which closes over the new selection and *)
(* board and the previous validMoves.                                       *)
(***************************************************************************)

InitDeferred ==
    /\ boardState = initializeBoardState
    /\ turn = "white"
    /\ selectedPiece = null
    /\ validMoves = <<>>
    /\ capturedPieces = [white |-> <<>>, black |-> <<>>]
    /\ gameStatus = "active"
    /\ promotionData = noPromotion
    /\ moveCount = 0
    /\ effectRender = "deferred"

\* The render scheduled by the effect's latest setValidMoves is committed.
renderValidMoves ==
    /\ effectRender = "deferred"
    /\ validMoves # useEffectValidMoves(selectedPiece, boardState)
    /\ validMoves' = useEffectValidMoves(selectedPiece, boardState)
    /\ UNCHANGED <<boardState, turn, selectedPiece, capturedPieces, gameStatus,
                   promotionData, moveCount, effectRender>>

\* Moves and promotions applied while the render is deferred.
MaxDeferredMoves == 5

NextDeferred ==
    \/ SquareClick /\ moveCount' <= MaxDeferredMoves
    \/ Promotion /\ moveCount' <= MaxDeferredMoves
    \/ renderValidMoves

SpecDeferred == InitDeferred /\ [][NextDeferred]_vars

\* C19: every move the session executes is legal when it is executed: the
\* clicked destination is among calculateValidMoves(selectedPiece, boardState)
\* for the selection and board the click is handled with, also when the click
\* follows a change of the selection before the move list has been renewed.
C19_ExecutedMoveLegal ==
    [][\A c \in ClickCells :
          (/\ ~clickIgnored
           /\ selectedPiece # null
           /\ MoveOnClick(c) # undefined
           /\ handleSquareClick(c[1], c[2], c[3])) =>
             \E m \in Range(calculateValidMoves(selectedPiece, boardState)) :
                <<m.x, m.y, m.z>> = c]_vars

====
